---- MODULE Spec2Model ----
(***************************************************************************)
(* A model of sex_stats.py: the regular expressions of class Regex, the    *)
(* timestamp and log-line parsers built from them, the custom-log reader,  *)
(* the choice of reader in the entry point and the o'clock function of     *)
(* time_function.                                                          *)
(*                                                                         *)
(* Text is a sequence of one-character strings.  A regular expression is   *)
(* a tree, and Match computes, as re.match does by backtracking, the       *)
(* matches of a tree at a position in the order in which the backtracking  *)
(* search finds them: the first one is the match re.match returns.         *)
(***************************************************************************)
EXTENDS Integers, Sequences, FiniteSets, TLC

VARIABLES
    enum_format,   \* what an f-string makes of a Regex member, one of EnumFormats
    regex_order,   \* iteration order of the set acceptable_regex: <<"A","B">> | <<"B","A">>
    parts,         \* the fields the input line was written from
    line,          \* the input line of parse_time_str / parse_log_line
    pc,            \* position of the running call
    ts_result,     \* what parse_time_str(line) did
    dt_result,     \* what TimeStamp._datetime did on ts_result
    log_result,    \* what parse_log_line(line) did
    entry,         \* what was called: "__main__" | "read_activity_log" | "none"
    path,          \* args.file
    reader,        \* the reader the entry point called
    exists,        \* whether open(fp) finds the file
    file_lines,    \* the lines of the file fp
    header,        \* the header argument of read_activity_log
    file_state,    \* "unopened" | "open" | "closed"
    read_lines,    \* f.readlines()[header:]
    mapped,        \* the results map(parse_log_line, ...) has produced so far
    df,            \* the rows of the DataFrame read_activity_log returns
    raised,        \* the exception that left the call, or "none"
    data_size,     \* df.shape[0] seen by time_function
    x,             \* the timestamp fn is applied to: [hour, minute]
    fn_value       \* fn(x) in twentieths of an hour

vars == <<enum_format, regex_order, parts, line, pc, ts_result, dt_result,
          log_result, entry, path, reader, exists, file_lines, header, file_state,
          read_lines, mapped, df, raised, data_size, x, fn_value>>

\* What format() makes of a member of an Enum that mixes in str: the
\* member's value (Python up to 3.10) or the text 'Regex.X' of str(member)
\* (Python 3.11 on).  The source fixes no interpreter.
EnumFormats == {"member_value", "member_name"}

----------------------------------------------------------------------------
(* Characters.  A character is a one-character string when it is ASCII, and the name  *)
(* "U+XXXX" of its code point otherwise.                                  *)

AsciiDigit == {"0", "1", "2", "3", "4", "5", "6", "7", "8", "9"}

\* decimal digits (category Nd) outside ASCII: ARABIC-INDIC DIGIT ZERO and
\* THREE, DEVANAGARI DIGIT THREE, FULLWIDTH DIGIT TWO
UnicodeDigit == {"U+0660", "U+0663", "U+0969", "U+FF12"}

\* \d of a str pattern compiled without re.ASCII: every decimal digit
Digit == AsciiDigit \cup UnicodeDigit

AsciiLetter ==
    {"a", "b", "c", "d", "e", "f", "g", "h", "i", "j", "k", "l", "m",
     "n", "o", "p", "q", "r", "s", "t", "u", "v", "w", "x", "y", "z",
     "A", "B", "C", "D", "E", "F", "G", "H", "I", "J", "K", "L", "M",
     "N", "O", "P", "Q", "R", "S", "T", "U", "V", "W", "X", "Y", "Z"}

\* letters outside ASCII: e with acute, u with diaeresis, CJK U+4E2D
UnicodeLetter == {"U+00E9", "U+00FC", "U+4E2D"}

\* numeric characters that are no decimal digits: VULGAR FRACTION ONE HALF
UnicodeNumeric == {"U+00BD"}

Letter == AsciiLetter \cup UnicodeLetter

\* \w of a str pattern compiled without re.ASCII: every alphanumeric
\* character and the underscore
WordChar == Letter \cup Digit \cup UnicodeNumeric \cup {"_"}

\* characters that are neither: ASCII blank, tab, newline and punctuation
\* marks, NO-BREAK SPACE, EM DASH
OtherChar ==
    {" ", "\t", "\n", "!", "\"", "#", "$", "%", "&", "'", "(", ")", "*",
     "+", ",", "-", ".", "/", ":", ";", "<", "=", ">", "?", "@", "[",
     "\\", "]", "^", "{", "|", "}", "~", "U+00A0", "U+2014"}

\* The characters whose Unicode properties the model knows.  \d and \w
\* are defined on these only: Match has no value on another character.
Alphabet == WordChar \cup OtherChar

\* the value int() gives a decimal digit
DigitVal(c) ==
    CASE c \in {"0", "U+0660"} -> 0
      [] c = "1" -> 1
      [] c \in {"2", "U+FF12"} -> 2
      [] c \in {"3", "U+0663", "U+0969"} -> 3
      [] c = "4" -> 4 [] c = "5" -> 5 [] c = "6" -> 6 [] c = "7" -> 7
      [] c = "8" -> 8 [] c = "9" -> 9

RECURSIVE IntOf(_)
\* int(s) of a string of decimal digits
IntOf(s) ==
    IF Len(s) = 0 THEN 0
    ELSE 10 * IntOf(SubSeq(s, 1, Len(s) - 1)) + DigitVal(s[Len(s)])

\* None, and a string that is not None
NoneVal == [some |-> FALSE, text |-> <<>>]
Some(t) == [some |-> TRUE, text |-> t]

----------------------------------------------------------------------------
(* Regular expressions and re.match *)

Lit(c) == [t |-> "lit", c |-> c]
Cls(S) == [t |-> "cls", s |-> S]
\* a class given by a Unicode property (\d, \w) and not by its members
UniCls(S) == [t |-> "unicls", s |-> S]
AnyChar == [t |-> "any"]
Cat(rs) == [t |-> "cat", rs |-> rs]
Alt(rs) == [t |-> "alt", rs |-> rs]
Opt(r) == [t |-> "opt", r |-> r]
Plus(r) == [t |-> "plus", r |-> r]
Grp(name, r) == [t |-> "grp", name |-> name, r |-> r]

\* the literal characters of a text, one node each
LitS(text) == [k \in 1..Len(text) |-> Lit(text[k])]

RECURSIVE Match(_, _, _, _)
RECURSIVE MatchEach(_, _, _)
RECURSIVE MatchCat(_, _, _)
RECURSIVE MatchAlt(_, _, _, _)
RECURSIVE MatchPlus(_, _, _)

\* The matches of r in s from position i with the groups caps captured so
\* far, in backtracking order.  A match is [pos, caps]: pos is the position
\* after it.
Match(r, s, i, caps) ==
    CASE r.t = "lit" ->
           IF i <= Len(s) /\ s[i] = r.c
           THEN <<[pos |-> i + 1, caps |-> caps]>> ELSE <<>>
      [] r.t = "cls" ->
           IF i <= Len(s) /\ s[i] \in r.s
           THEN <<[pos |-> i + 1, caps |-> caps]>> ELSE <<>>
      [] r.t = "unicls" ->
           IF i > Len(s) THEN <<>>
           ELSE (CASE s[i] \in r.s -> <<[pos |-> i + 1, caps |-> caps]>>
                   [] s[i] \in Alphabet \ r.s -> <<>>)
      [] r.t = "any" ->
           IF i <= Len(s) /\ s[i] # "\n"
           THEN <<[pos |-> i + 1, caps |-> caps]>> ELSE <<>>
      [] r.t = "cat" -> MatchCat(r.rs, s, <<[pos |-> i, caps |-> caps]>>)
      [] r.t = "alt" -> MatchAlt(r.rs, s, i, caps)
      [] r.t = "opt" -> Match(r.r, s, i, caps) \o <<[pos |-> i, caps |-> caps]>>
      [] r.t = "plus" -> MatchPlus(r, s, Match(r.r, s, i, caps))
      [] r.t = "grp" ->
           LET inner == Match(r.r, s, i, caps)
           IN  [k \in 1..Len(inner) |->
                  [pos |-> inner[k].pos,
                   caps |-> [inner[k].caps EXCEPT
                               ![r.name] = Some(SubSeq(s, i, inner[k].pos - 1))]]]

\* r matched from each of the matches in starts, in order
MatchEach(r, s, starts) ==
    IF Len(starts) = 0 THEN <<>>
    ELSE Match(r, s, Head(starts).pos, Head(starts).caps)
           \o MatchEach(r, s, Tail(starts))

MatchCat(rs, s, starts) ==
    IF Len(rs) = 0 THEN starts
    ELSE MatchCat(Tail(rs), s, MatchEach(Head(rs), s, starts))

MatchAlt(rs, s, i, caps) ==
    IF Len(rs) = 0 THEN <<>>
    ELSE Match(Head(rs), s, i, caps) \o MatchAlt(Tail(rs), s, i, caps)

\* greedy r+: after one more r, first the longer matches, then this one
MatchPlus(r, s, once) ==
    IF Len(once) = 0 THEN <<>>
    ELSE Match(r, s, Head(once).pos, Head(once).caps)
           \o <<Head(once)>> \o MatchPlus(r, s, Tail(once))

RECURSIVE GroupNames(_)
RECURSIVE GroupNamesOf(_)
\* the named groups of a pattern
GroupNames(r) ==
    CASE r.t \in {"lit", "cls", "unicls", "any"} -> {}
      [] r.t \in {"cat", "alt"} -> GroupNamesOf(r.rs)
      [] r.t \in {"opt", "plus"} -> GroupNames(r.r)
      [] r.t = "grp" -> {r.name} \cup GroupNames(r.r)

GroupNamesOf(rs) ==
    IF Len(rs) = 0 THEN {}
    ELSE GroupNames(Head(rs)) \cup GroupNamesOf(Tail(rs))

\* re.match(regex, s): the first match at the start of s, or None.  The
\* result is [matched, groups]: groups is groupdict(), None for a group
\* that took no part in the match.
ReMatch(regex, s) ==
    LET all == Match(regex, s, 1, [n \in GroupNames(regex) |-> NoneVal])
    IN  IF Len(all) = 0 THEN [matched |-> FALSE, groups |-> <<>>]
        ELSE [matched |-> TRUE, groups |-> all[1].caps]

----------------------------------------------------------------------------
(* class Regex *)

\* \d
AnyDigit == UniCls(Digit)

\* \w
AnyWord == UniCls(WordChar)

\* (?P<Year>(19|2\d)?\d{2})
Year ==
    [name |-> <<"Y", "e", "a", "r">>,
     value |-> Grp("Year",
                 Cat(<<Opt(Alt(<<Cat(<<Lit("1"), Lit("9")>>),
                                 Cat(<<Lit("2"), AnyDigit>>)>>)),
                       AnyDigit, AnyDigit>>))]

\* (?P<Month>1[0-2]|0\d)
Month ==
    [name |-> <<"M", "o", "n", "t", "h">>,
     value |-> Grp("Month",
                 Alt(<<Cat(<<Lit("1"), Cls({"0", "1", "2"})>>),
                       Cat(<<Lit("0"), AnyDigit>>)>>))]

\* (?P<Day>[123]\d|0\d)
Day ==
    [name |-> <<"D", "a", "y">>,
     value |-> Grp("Day",
                 Alt(<<Cat(<<Cls({"1", "2", "3"}), AnyDigit>>),
                       Cat(<<Lit("0"), AnyDigit>>)>>))]

\* (?P<Hour>[01]?\d|2[0-3])
Hour ==
    [name |-> <<"H", "o", "u", "r">>,
     value |-> Grp("Hour",
                 Alt(<<Cat(<<Opt(Cls({"0", "1"})), AnyDigit>>),
                       Cat(<<Lit("2"), Cls({"0", "1", "2", "3"})>>)>>))]

\* (?P<Minute>[0-5]\d)
Minute ==
    [name |-> <<"M", "i", "n", "u", "t", "e">>,
     value |-> Grp("Minute", Cat(<<Cls({"0", "1", "2", "3", "4", "5"}), AnyDigit>>))]

\* (?P<Second>[0-5]\d)
Second ==
    [name |-> <<"S", "e", "c", "o", "n", "d">>,
     value |-> Grp("Second", Cat(<<Cls({"0", "1", "2", "3", "4", "5"}), AnyDigit>>))]

\* fr'{Hour}:{Minute}(:{Second})?': in the class body Hour, Minute and
\* Second are still plain strings, so their text is what is put in
Time ==
    [name |-> <<"T", "i", "m", "e">>,
     value |-> Cat(<<Hour.value, Lit(":"), Minute.value,
                     Opt(Cat(<<Lit(":"), Second.value>>))>>)]

\* (?P<Repeat>\d) times?
Repeat ==
    [name |-> <<"R", "e", "p", "e", "a", "t">>,
     value |-> Cat(<<Grp("Repeat", AnyDigit)>> \o LitS(<<" ", "t", "i", "m", "e">>) \o <<Opt(Lit("s"))>>)]

\* (?P<Kind>\w+( \(\w+\))?)
Kind ==
    [name |-> <<"K", "i", "n", "d">>,
     value |-> Grp("Kind",
                 Cat(<<Plus(AnyWord),
                       Opt(Cat(<<Lit(" "), Lit("("), Plus(AnyWord),
                                 Lit(")")>>))>>))]

\* What an f-string puts in for {Regex.X}.  Regex mixes str into Enum:
\* format() of a member is its value up to Python 3.10 and the text
\* 'Regex.X' from Python 3.11 on, in which '.' is the any-character
\* pattern.
EnumFormat(member, mode) ==
    IF mode = "member_value" THEN member.value
    ELSE Cat(LitS(<<"R", "e", "g", "e", "x">>) \o <<AnyChar>> \o LitS(member.name))

----------------------------------------------------------------------------
(* TimeStamp, LogLine, parse_time_str and parse_log_line *)

\* fr'^{Regex.Year}-{Regex.Month}-{Regex.Day}\*{Regex.Time}'
RegexA(mode) ==
    Cat(<<EnumFormat(Year, mode), Lit("-"), EnumFormat(Month, mode), Lit("-"),
          EnumFormat(Day, mode), Lit("*"), EnumFormat(Time, mode)>>)

\* RegexB written with the separators of RegexA
RegexB_dashed(mode) ==
    Cat(<<EnumFormat(Day, mode), Lit("-"), EnumFormat(Month, mode), Lit("-"),
          EnumFormat(Year, mode), Lit("*"), EnumFormat(Time, mode)>>)

\* fr'^{Regex.Day}/{Regex.Month}/{Regex.Year} {Regex.Time}'
RegexB(mode) ==
    Cat(<<EnumFormat(Day, mode), Lit("/"), EnumFormat(Month, mode), Lit("/"),
          EnumFormat(Year, mode), Lit(" "), EnumFormat(Time, mode)>>)

\* the set acceptable_regex of parse_time_str, by the names used in
\* regex_order
TimeRegex(which, mode) == IF which = "A" THEN RegexA(mode) ELSE RegexB(mode)

\* fr'^.+ {Regex.Repeat} {Regex.Kind}'
LogRegex(mode) ==
    Cat(<<Plus(AnyChar), Lit(" "), EnumFormat(Repeat, mode), Lit(" "),
          EnumFormat(Kind, mode)>>)

NoTimeStamp == [f \in {"Year", "Month", "Day", "Hour", "Minute", "Second"} |-> NoneVal]

\* TimeStamp(**groups): Year, Month and Day are required, the other fields
\* default to 0; the fields hold what the groups captured, text or None.
\* A keyword that is no field, or a missing required one, is a TypeError.
TimeStamp(groups) ==
    IF {"Year", "Month", "Day"} \subseteq DOMAIN groups
         /\ DOMAIN groups \subseteq DOMAIN NoTimeStamp
    THEN [status |-> "TimeStamp",
          fields |-> [f \in DOMAIN NoTimeStamp |->
                        IF f \in DOMAIN groups THEN groups[f] ELSE Some(<<"0">>)]]
    ELSE [status |-> "TypeError", fields |-> NoTimeStamp]

RECURSIVE parse_time_str_from(_, _, _, _)
\* the loop of parse_time_str from the k-th pattern of order on: the first
\* pattern that matches returns; falling off the loop returns None
parse_time_str_from(time_str, mode, order, k) ==
    IF k > Len(order) THEN [status |-> "None", fields |-> NoTimeStamp]
    ELSE LET matched == ReMatch(TimeRegex(order[k], mode), time_str)
         IN  IF matched.matched THEN TimeStamp(matched.groups)
             ELSE parse_time_str_from(time_str, mode, order, k + 1)

parse_time_str(time_str, mode, order) ==
    parse_time_str_from(time_str, mode, order, 1)

\* int(_) if _ else 0, of one field of a TimeStamp
FieldInt(v) == IF v.some /\ Len(v.text) > 0 THEN IntOf(v.text) ELSE 0

IsLeap(y) == (y % 4 = 0 /\ y % 100 # 0) \/ y % 400 = 0

DaysInMonth(y, m) ==
    IF m = 2 THEN (IF IsLeap(y) THEN 29 ELSE 28)
    ELSE IF m \in {4, 6, 9, 11} THEN 30 ELSE 31

NoDatetime == [year |-> 0, month |-> 0, day |-> 0, hour |-> 0, minute |-> 0, second |-> 0]

\* TimeStamp._datetime: datetime(*(int(_) if _ else 0 for _ in self)),
\* a ValueError when the numbers are no date and time
Datetime(ts) ==
    LET y == FieldInt(ts.Year)
        m == FieldInt(ts.Month)
        d == FieldInt(ts.Day)
        hh == FieldInt(ts.Hour)
        mm == FieldInt(ts.Minute)
        ss == FieldInt(ts.Second)
    IN  IF /\ y \in 1..9999 /\ m \in 1..12
           /\ d >= 1 /\ d <= DaysInMonth(y, m)
           /\ hh \in 0..23 /\ mm \in 0..59 /\ ss \in 0..59
        THEN [status |-> "datetime",
              value |-> [year |-> y, month |-> m, day |-> d,
                         hour |-> hh, minute |-> mm, second |-> ss]]
        ELSE [status |-> "ValueError", value |-> NoDatetime]

NoLogLine == [TimeStamp |-> NoDatetime, Repeat |-> 0, Kind |-> <<>>]

\* parse_log_line.  Its result is [status, value]: status "LogLine" with
\* the record, "None" when the function falls off its end, or the
\* exception that leaves it.  The arguments of LogLine(...) are evaluated
\* from the left: timestamp._datetime before matched['Repeat'], which is
\* a TypeError when matched is None.
parse_log_line(ln, mode, order) ==
    LET timestamp == parse_time_str(ln, mode, order)
        matched == ReMatch(LogRegex(mode), ln)
        dt == Datetime(timestamp.fields)
    IN  IF timestamp.status = "TypeError"
        THEN [status |-> "TypeError", value |-> NoLogLine]
        ELSE IF timestamp.status = "None"
        THEN [status |-> "None", value |-> NoLogLine]
        ELSE IF dt.status = "ValueError"
        THEN [status |-> "ValueError", value |-> NoLogLine]
        ELSE IF ~matched.matched
        THEN [status |-> "TypeError", value |-> NoLogLine]
        ELSE IF ~({"Repeat", "Kind"} \subseteq DOMAIN matched.groups)
        THEN [status |-> "IndexError", value |-> NoLogLine]
        ELSE [status |-> "LogLine",
              value |-> [TimeStamp |-> dt.value,
                         Repeat |-> IntOf(matched.groups.Repeat.text),
                         Kind |-> matched.groups.Kind.text]]

----------------------------------------------------------------------------
(* The input lines: a line is written from a date, a time of day and a    *)
(* '<N> time(s) <category>' suffix in one of the two layouts, or is a     *)
(* raw text with no timestamp.                                             *)

YearsWritten ==
    {<<"2", "0", "2", "1">>,
     <<"1", "9", "9", "9">>,
     <<"1", "8", "5", "0">>,
     <<"2", "1">>,
     <<"0", "0">>}

MonthsWritten ==
    {<<"0", "0">>,
     <<"0", "2">>,
     <<"0", "5">>,
     <<"1", "2">>,
     <<"1", "3">>}

DaysWritten ==
    {<<"0", "0">>,
     <<"0", "1">>,
     <<"2", "9">>,
     <<"3", "1">>,
     <<"3", "2">>,
     <<"3", "9">>,
     <<"0", "U+0663">>}

TimesWritten ==
    {[hh |-> <<"1", "4">>, mm |-> <<"3", "0">>, ss |-> NoneVal],
     [hh |-> <<"1", "4">>, mm |-> <<"3", "0">>, ss |-> Some(<<"0", "5">>)],
     [hh |-> <<"9">>, mm |-> <<"0", "5">>, ss |-> NoneVal],
     [hh |-> <<"2", "3">>, mm |-> <<"5", "9">>, ss |-> NoneVal],
     [hh |-> <<"2", "4">>, mm |-> <<"0", "0">>, ss |-> NoneVal],
     [hh |-> <<"0", "0">>, mm |-> <<"0", "0">>, ss |-> Some(<<"5", "9">>)]}

NoSuffix == [present |-> FALSE, N |-> <<>>, plural |-> FALSE, kind |-> <<>>]

SuffixesWritten ==
    {NoSuffix,
     [present |-> TRUE, N |-> <<"3">>, plural |-> TRUE, kind |-> <<"o", "r", "a", "l", " ", "(", "p", "a", "r", "t", "n", "e", "r", ")">>],
     [present |-> TRUE, N |-> <<"1">>, plural |-> FALSE, kind |-> <<"k", "i", "s", "s", "i", "n", "g">>],
     [present |-> TRUE, N |-> <<"0">>, plural |-> TRUE, kind |-> <<"o", "r", "a", "l">>],
     [present |-> TRUE, N |-> <<"1", "2">>, plural |-> TRUE, kind |-> <<"o", "r", "a", "l">>],
     [present |-> TRUE, N |-> <<"9">>, plural |-> TRUE, kind |-> <<"a", "_", "b">>],
     [present |-> TRUE, N |-> <<"U+0663">>, plural |-> TRUE, kind |-> <<"c", "a", "f", "U+00E9">>]}

RawLines ==
    {<<>>,
     <<"n", "o", "t", " ", "a", " ", "l", "o", "g", " ", "e", "n", "t", "r", "y">>,
     <<"D", "a", "t", "e", " ", "A", "c", "t", "i", "v", "i", "t", "y">>,
     <<"R", "e", "g", "e", "x", ".", "Y", "e", "a", "r", "-", "R", "e", "g", "e", "x", ".", "M", "o", "n", "t", "h", "-", "R", "e", "g", "e", "x", ".", "D", "a", "y", "*", "R", "e", "g", "e", "x", ".", "T", "i", "m", "e", " ", "3", " ", "t", "i", "m", "e", "s", " ", "o", "r", "a", "l">>,
     <<"R", "e", "g", "e", "x", "X", "D", "a", "y", "/", "R", "e", "g", "e", "x", "X", "M", "o", "n", "t", "h", "/", "R", "e", "g", "e", "x", "X", "Y", "e", "a", "r", " ", "R", "e", "g", "e", "x", "X", "T", "i", "m", "e">>}

WrittenParts ==
    [grammar : {"A", "B", "AB", "BA"}, Y : YearsWritten, M : MonthsWritten, D : DaysWritten,
     time : TimesWritten, suffix : SuffixesWritten, raw : {<<>>}]

RawParts ==
    [grammar : {"raw"}, Y : {<<>>}, M : {<<>>}, D : {<<>>},
     time : {[hh |-> <<>>, mm |-> <<>>, ss |-> NoneVal]}, suffix : {NoSuffix},
     raw : RawLines]

RenderTime(t) ==
    t.hh \o <<":">> \o t.mm \o (IF t.ss.some THEN <<":">> \o t.ss.text ELSE <<>>)

RenderSuffix(sf) ==
    IF sf.present
    THEN <<" ">> \o sf.N \o <<" ", "t", "i", "m", "e">> \o (IF sf.plural THEN <<"s">> ELSE <<>>)
           \o <<" ">> \o sf.kind
    ELSE <<>>

\* the line as written: layout A is YYYY-MM-DD*HH:MM[:SS], layout B is
\* DD/MM/YYYY HH:MM[:SS]; AB is the date of A before the blank of B and
\* BA the date of B before the star of A, which are neither
Render(p) ==
    CASE p.grammar = "A" ->
           p.Y \o <<"-">> \o p.M \o <<"-">> \o p.D \o <<"*">>
             \o RenderTime(p.time) \o RenderSuffix(p.suffix)
      [] p.grammar = "B" ->
           p.D \o <<"/">> \o p.M \o <<"/">> \o p.Y \o <<" ">>
             \o RenderTime(p.time) \o RenderSuffix(p.suffix)
      [] p.grammar = "AB" ->
           p.Y \o <<"-">> \o p.M \o <<"-">> \o p.D \o <<" ">>
             \o RenderTime(p.time) \o RenderSuffix(p.suffix)
      [] p.grammar = "BA" ->
           p.D \o <<"/">> \o p.M \o <<"/">> \o p.Y \o <<"*">>
             \o RenderTime(p.time) \o RenderSuffix(p.suffix)
      [] OTHER -> p.raw

----------------------------------------------------------------------------
(* Calls of parse_time_str, TimeStamp._datetime and parse_log_line *)

NoParts == CHOOSE p \in RawParts : p.raw = <<>>

NoTsResult == [status |-> "None", fields |-> NoTimeStamp]
NoDtResult == [status |-> "none", value |-> NoDatetime]
NoLogResult == [status |-> "None", value |-> NoLogLine]

\* the variables of the reader, the entry point and time_function, idle
IdleRead ==
    /\ entry = "none" /\ path = <<>> /\ reader = "none" /\ exists = TRUE /\ file_lines = <<>>
    /\ header = 1 /\ file_state = "unopened" /\ read_lines = <<>>
    /\ mapped = <<>> /\ df = <<>> /\ raised = "none"

IdleTime == data_size = 0 /\ x = [hour |-> 0, minute |-> 0] /\ fn_value = 0

IdleParse ==
    /\ parts = NoParts /\ line = <<>> /\ ts_result = NoTsResult
    /\ dt_result = NoDtResult /\ log_result = NoLogResult

ParseInit ==
    /\ enum_format \in EnumFormats
    /\ regex_order \in {<<"A", "B">>, <<"B", "A">>}
    /\ parts \in WrittenParts \cup RawParts
    /\ line = Render(parts)
    /\ pc = "start"
    /\ ts_result = NoTsResult
    /\ dt_result = NoDtResult
    /\ log_result = NoLogResult
    /\ IdleRead /\ IdleTime

unchanged_input == UNCHANGED <<enum_format, regex_order, parts, line>>
unchanged_read ==
    UNCHANGED <<entry, path, reader, exists, file_lines, header, file_state,
                read_lines, mapped, df, raised>>
unchanged_time == UNCHANGED <<data_size, x, fn_value>>

\* parse_time_str(line)
ParseTimeStr ==
    /\ pc = "start"
    /\ ts_result' = parse_time_str(line, enum_format, regex_order)
    /\ pc' = "time_parsed"
    /\ UNCHANGED <<dt_result, log_result>>
    /\ unchanged_input /\ unchanged_read /\ unchanged_time

\* the _datetime property of the TimeStamp parse_time_str returned
TimeStampDatetime ==
    /\ pc = "time_parsed"
    /\ ts_result.status = "TimeStamp"
    /\ dt_result' = Datetime(ts_result.fields)
    /\ pc' = "datetime_done"
    /\ UNCHANGED <<ts_result, log_result>>
    /\ unchanged_input /\ unchanged_read /\ unchanged_time

\* parse_log_line(line)
ParseLogLine ==
    /\ pc = "start"
    /\ log_result' = parse_log_line(line, enum_format, regex_order)
    /\ pc' = "line_parsed"
    /\ UNCHANGED <<ts_result, dt_result>>
    /\ unchanged_input /\ unchanged_read /\ unchanged_time

ParseNext == ParseTimeStr \/ TimeStampDatetime \/ ParseLogLine

SpecParse == ParseInit /\ [][ParseNext]_vars

----------------------------------------------------------------------------
(* The entry point and read_activity_log *)

MaxFileLines == 3
MaxHeader == 2

\* the lines a file is made of
FileLineSet ==
    {<<"n", "o", "t", " ", "a", " ", "l", "o", "g", " ", "e", "n", "t", "r", "y">>,
     <<"2", "0", "2", "1", "-", "0", "5", "-", "0", "1", "*", "1", "4", ":", "3", "0", " ", "3", " ", "t", "i", "m", "e", "s", " ", "o", "r", "a", "l", " ", "(", "p", "a", "r", "t", "n", "e", "r", ")">>,
     <<"0", "1", "/", "0", "5", "/", "2", "0", "2", "1", " ", "1", "4", ":", "3", "0", ":", "0", "5", " ", "1", " ", "t", "i", "m", "e", " ", "k", "i", "s", "s", "i", "n", "g">>,
     <<"2", "0", "2", "1", "-", "0", "5", "-", "0", "1", "*", "1", "4", ":", "3", "0">>,
     <<"R", "e", "g", "e", "x", ".", "Y", "e", "a", "r", "-", "R", "e", "g", "e", "x", ".", "M", "o", "n", "t", "h", "-", "R", "e", "g", "e", "x", ".", "D", "a", "y", "*", "R", "e", "g", "e", "x", ".", "T", "i", "m", "e", " ", "3", " ", "t", "i", "m", "e", "s", " ", "o", "r", "a", "l">>}

RECURSIVE SeqsUpTo(_, _)
\* the sequences over S of length at most n
SeqsUpTo(S, n) ==
    IF n = 0 THEN {<<>>}
    ELSE LET shorter == SeqsUpTo(S, n - 1)
         IN  shorter \cup {Append(q, e) : q \in shorter, e \in S}

\* the lines a table exported by Withings Health is made of, and lines it
\* is not: a header without startdate, a row of six fields, a line
\* without a separator
CsvLineSet ==
    {<<"s", "t", "a", "r", "t", "d", "a", "t", "e", ";", "v", "a", "l", "u", "e", ";", "u", "n", "i", "t", ";", "n", "a", "m", "e", ";", "s", "o", "u", "r", "c", "e">>,
     <<"d", "a", "t", "e", ";", "v", "a", "l", "u", "e", ";", "u", "n", "i", "t", ";", "n", "a", "m", "e", ";", "s", "o", "u", "r", "c", "e">>,
     <<"2", "0", "2", "1", "-", "0", "5", "-", "0", "1", "T", "1", "4", ":", "3", "0", ":", "0", "0", ";", "3", ";", "c", "o", "u", "n", "t", ";", "S", "e", "x", ";", "M", "a", "n", "u", "a", "l", " ", "E", "n", "t", "r", "y">>,
     <<"2", "0", "2", "1", "-", "0", "5", "-", "0", "1", "T", "1", "4", ":", "3", "0", ":", "0", "0", ";", "3", ";", "c", "o", "u", "n", "t", ";", "S", "e", "x", ";", "M", "a", "n", "u", "a", "l", " ", "E", "n", "t", "r", "y", ";", "e", "x", "t", "r", "a">>,
     <<"n", "o", "t", " ", "a", " ", "l", "o", "g", " ", "e", "n", "t", "r", "y">>}

\* the contents of the file at path
Files == SeqsUpTo(FileLineSet, MaxFileLines) \cup SeqsUpTo(CsvLineSet, MaxFileLines)

Paths ==
    {<<"a", ".", "c", "s", "v">>,
     <<"c", "s", "v">>,
     <<"a", ".", "t", "x", "t">>,
     <<"l", "o", "g">>,
     <<"a", ".", "C", "S", "V">>,
     <<"d", ".", "c", "s", "v", "/", "x">>,
     <<"a", ".", "c", "s", "v", ".", "t", "x", "t">>}

DirectPath == <<"l", "o", "g", ".", "t", "x", "t">>

RECURSIVE LastIndexOf(_, _)
\* the position of the last c in text, 0 when there is none
LastIndexOf(text, c) ==
    IF Len(text) = 0 THEN 0
    ELSE IF text[Len(text)] = c THEN Len(text)
    ELSE LastIndexOf(SubSeq(text, 1, Len(text) - 1), c)

\* text.rsplit('.', 1)[-1]: what follows the last '.', all of text when
\* it holds no '.'
RsplitLast(text) == SubSeq(text, LastIndexOf(text, ".") + 1, Len(text))

\* the reader the entry point calls for args.file
SelectReader(file) ==
    IF RsplitLast(file) = <<"c", "s", "v">>
    THEN "read_activity_whealth" ELSE "read_activity_log"

\* a close() that only the return reaches
WithExit_on_return_only(exc) == IF exc THEN "open" ELSE "closed"

\* leaving the with block, by return or by exception (exc): the context
\* manager of the file closes it
WithExit(exc) == "closed"

\* the rows of DataFrame(results): one row for each element, an element
\* that is None included
DataFrameRows(results) == results

\* whether DataFrame(results) has the columns TimeStamp, Repeat and Kind:
\* it takes the fields of the first element, when there is one and it is
\* a LogLine
HasLogLineColumns(results) ==
    Len(results) > 0 /\ results[1].status = "LogLine"

----------------------------------------------------------------------------
(* read_activity_whealth *)

RECURSIVE SplitFields(_)
\* the fields of a line of a table whose separator is ';'
SplitFields(text) ==
    LET k == LastIndexOf(text, ";")
    IN  IF k = 0 THEN <<text>>
        ELSE Append(SplitFields(SubSeq(text, 1, k - 1)),
                    SubSeq(text, k + 1, Len(text)))

Max(a, b) == IF a >= b THEN a ELSE b

\* the cells of a frame
NaN == [type |-> "NaN", text |-> <<>>, int |-> 0]
StrCell(t) == [type |-> "str", text |-> t, int |-> 0]
IntCell(n) == [type |-> "int64", text |-> <<>>, int |-> n]
FloatCell(n) == [type |-> "float64", text |-> <<>>, int |-> n]
NaT == [type |-> "NaT"]
TimeCell(t) == [type |-> "datetime64", time |-> t]

NoFrame == [columns |-> <<>>, rows |-> <<>>]

\* a field read_csv reads as an integer
IsIntText(t) == Len(t) > 0 /\ \A k \in 1..Len(t) : t[k] \in AsciiDigit

\* The cells read_csv makes of the fields of one column (None: a field
\* that is empty or missing): int64 when every field is an integer,
\* float64 when some are missing and the others integers, the strings as
\* written otherwise.
InferColumn(fields) ==
    LET allInt == \A k \in 1..Len(fields) : fields[k].some => IsIntText(fields[k].text)
        anyNaN == \E k \in 1..Len(fields) : ~fields[k].some
    IN  [k \in 1..Len(fields) |->
           IF ~fields[k].some THEN NaN
           ELSE IF ~allInt THEN StrCell(fields[k].text)
           ELSE IF anyNaN THEN FloatCell(IntOf(fields[k].text))
           ELSE IntCell(IntOf(fields[k].text))]

\* read_csv(fp, sep=';') of a file that exists.  An empty file has no
\* columns to parse.  The first line names the columns.  The first row
\* under it may be shorter than it, and is filled up with NaN, or longer:
\* its leading fields are then the index and no column.  A later row with
\* more fields than these two is a ParserError, one with fewer is filled
\* up.
read_csv(lines) ==
    IF Len(lines) = 0
    THEN [status |-> "EmptyDataError", frame |-> NoFrame]
    ELSE LET fields == [k \in 1..Len(lines) |-> SplitFields(lines[k])]
             passed == Len(fields[1])
             width == IF Len(lines) >= 2 THEN Max(passed, Len(fields[2])) ELSE passed
             leading == width - passed
             Field(k, j) ==
                 IF j <= Len(fields[k]) /\ Len(fields[k][j]) > 0
                 THEN Some(fields[k][j]) ELSE NoneVal
             Column(j) ==
                 InferColumn([k \in 1..(Len(lines) - 1) |-> Field(k + 1, leading + j)])
         IN  IF \E k \in 3..Len(lines) : Len(fields[k]) > width
             THEN [status |-> "ParserError", frame |-> NoFrame]
             ELSE [status |-> "ok",
                   frame |-> [columns |-> fields[1],
                              rows |-> [k \in 1..(Len(lines) - 1) |->
                                          [j \in 1..passed |-> Column(j)[k]]]]]

UnitColumn == <<"u", "n", "i", "t">>
NameColumn == <<"n", "a", "m", "e">>
SourceColumn == <<"s", "o", "u", "r", "c", "e">>
StartdateColumn == <<"s", "t", "a", "r", "t", "d", "a", "t", "e">>
ValueColumn == <<"v", "a", "l", "u", "e">>
TimeStampColumn == <<"T", "i", "m", "e", "S", "t", "a", "m", "p">>
RepeatColumn == <<"R", "e", "p", "e", "a", "t">>
KindColumn == <<"K", "i", "n", "d">>
Unknown == <<"U", "n", "k", "n", "o", "w", "n">>

Range(q) == {q[k] : k \in 1..Len(q)}

RECURSIVE Positions(_, _)
\* the positions of the columns that are not in names, in order
Positions(columns, names) ==
    IF Len(columns) = 0 THEN <<>>
    ELSE LET front == Positions(SubSeq(columns, 1, Len(columns) - 1), names)
         IN  IF columns[Len(columns)] \in names THEN front
             ELSE Append(front, Len(columns))

\* .drop(columns=['unit', 'name', 'source'], axis=1): a KeyError when one
\* of them is no column of the frame
Drop(frame) ==
    IF ~({UnitColumn, NameColumn, SourceColumn} \subseteq Range(frame.columns))
    THEN [status |-> "KeyError", frame |-> NoFrame]
    ELSE LET keep == Positions(frame.columns, {UnitColumn, NameColumn, SourceColumn})
         IN  [status |-> "ok",
              frame |-> [columns |-> [j \in 1..Len(keep) |-> frame.columns[keep[j]]],
                         rows |-> [k \in 1..Len(frame.rows) |->
                                     [j \in 1..Len(keep) |-> frame.rows[k][keep[j]]]]]]

\* .rename(columns={'startdate': 'TimeStamp', 'value': 'Repeat'}): a
\* column the frame does not have is passed over
Rename(frame) ==
    [frame EXCEPT !.columns =
       [j \in 1..Len(frame.columns) |->
          IF frame.columns[j] = StartdateColumn THEN TimeStampColumn
          ELSE IF frame.columns[j] = ValueColumn THEN RepeatColumn
          ELSE frame.columns[j]]]

\* the position of the column called c
ColumnAt(frame, c) == CHOOSE j \in 1..Len(frame.columns) : frame.columns[j] = c

\* a text YYYY-MM-DDTHH:MM:SS
IsIsoText(t) ==
    /\ Len(t) = 19
    /\ t[5] = "-" /\ t[8] = "-" /\ t[11] = "T" /\ t[14] = ":" /\ t[17] = ":"
    /\ \A k \in (1..19) \ {5, 8, 11, 14, 17} : t[k] \in AsciiDigit

\* the moment such a text names, when there is one
IsoTime(t) ==
    [year |-> IntOf(SubSeq(t, 1, 4)), month |-> IntOf(SubSeq(t, 6, 7)),
     day |-> IntOf(SubSeq(t, 9, 10)), hour |-> IntOf(SubSeq(t, 12, 13)),
     minute |-> IntOf(SubSeq(t, 15, 16)), second |-> IntOf(SubSeq(t, 18, 19)),
     nanosecond |-> 0]

\* whether it is a moment of the calendar
IsMoment(t) ==
    /\ t.year >= 1 /\ t.month \in 1..12
    /\ t.day \in 1..DaysInMonth(t.year, t.month)
    /\ t.hour \in 0..23 /\ t.minute \in 0..59 /\ t.second \in 0..59

\* years every moment of which a nanosecond timestamp holds
TimestampYears == 1678..2261

\* texts that name no moment
NotADate == {StartdateColumn, ValueColumn, <<"d", "a", "t", "e">>, <<"n", "o", "t", " ", "a", " ", "l", "o", "g", " ", "e", "n", "t", "r", "y">>}

\* n nanoseconds after 1970-01-01 00:00:00, n below one second
EpochPlus(n) ==
    [year |-> 1970, month |-> 1, day |-> 1, hour |-> 0, minute |-> 0,
     second |-> 0, nanosecond |-> n]

\* to_datetime(column): a number counts nanoseconds since 1970, NaN is
\* NaT, a string is parsed; a string that names no moment is a ValueError.
\* It is defined on the strings of NotADate and on those of IsIsoText,
\* and on these unless they name a moment outside TimestampYears.
to_datetime(column) ==
    IF \E k \in 1..Len(column) :
         /\ column[k].type = "str"
         /\ \/ column[k].text \in NotADate
            \/ IsIsoText(column[k].text) /\ ~IsMoment(IsoTime(column[k].text))
    THEN [status |-> "ValueError", column |-> <<>>]
    ELSE [status |-> "ok",
          column |-> [k \in 1..Len(column) |->
                        CASE column[k].type = "NaN" -> NaT
                          [] column[k].type \in {"int64", "float64"}
                               /\ column[k].int < 1000000000 ->
                               TimeCell(EpochPlus(column[k].int))
                          [] column[k].type = "str" /\ IsIsoText(column[k].text)
                               /\ IsoTime(column[k].text).year \in TimestampYears ->
                               TimeCell(IsoTime(column[k].text))]]

\* df['Kind'] = 'Unknown': a new last column, or new cells for the column
\* there is
SetKind(frame) ==
    IF KindColumn \in Range(frame.columns)
    THEN [frame EXCEPT !.rows =
            [k \in 1..Len(frame.rows) |->
               [frame.rows[k] EXCEPT ![ColumnAt(frame, KindColumn)] = StrCell(Unknown)]]]
    ELSE [columns |-> Append(frame.columns, KindColumn),
          rows |-> [k \in 1..Len(frame.rows) |-> Append(frame.rows[k], StrCell(Unknown))]]

\* read_activity_whealth(fp) of a file that exists with the lines given:
\* the frame it returns, or the exception it raises
read_activity_whealth(lines) ==
    LET read == read_csv(lines)
        dropped == Drop(read.frame)
        renamed == Rename(dropped.frame)
        at == ColumnAt(renamed, TimeStampColumn)
        times == to_datetime([k \in 1..Len(renamed.rows) |-> renamed.rows[k][at]])
        converted ==
            [renamed EXCEPT !.rows =
               [k \in 1..Len(renamed.rows) |->
                  [renamed.rows[k] EXCEPT ![at] = times.column[k]]]]
    IN  IF read.status # "ok" THEN [status |-> read.status, frame |-> NoFrame]
        ELSE IF dropped.status # "ok" THEN [status |-> dropped.status, frame |-> NoFrame]
        ELSE IF TimeStampColumn \notin Range(renamed.columns)
             THEN [status |-> "AttributeError", frame |-> NoFrame]
        ELSE IF times.status # "ok" THEN [status |-> times.status, frame |-> NoFrame]
        ELSE [status |-> "returned", frame |-> SetKind(converted)]

ReadInit ==
    /\ enum_format \in EnumFormats
    /\ regex_order \in {<<"A", "B">>, <<"B", "A">>}
    /\ \/ /\ entry = "__main__" /\ pc = "main"
          /\ path \in Paths /\ header = 1
       \/ /\ entry = "read_activity_log" /\ pc = "call"
          /\ path = DirectPath /\ header \in 0..MaxHeader
    /\ reader = "none"
    /\ exists \in BOOLEAN
    /\ file_lines \in (IF exists THEN Files ELSE {<<>>})
    /\ file_state = "unopened"
    /\ read_lines = <<>> /\ mapped = <<>> /\ df = <<>> /\ raised = "none"
    /\ IdleParse /\ IdleTime

unchanged_parse == UNCHANGED <<parts, line, ts_result, dt_result, log_result>>
unchanged_file == UNCHANGED <<enum_format, regex_order, entry, path, exists, file_lines, header>>

\* if args.file.rsplit('.', 1)[-1] == 'csv': ... else: ...
Main ==
    /\ pc = "main"
    /\ reader' = SelectReader(path)
    /\ pc' = IF SelectReader(path) = "read_activity_whealth" THEN "whealth" ELSE "call"
    /\ UNCHANGED <<file_state, read_lines, mapped, df, raised>>
    /\ unchanged_file /\ unchanged_parse /\ unchanged_time

\* read_activity_whealth(args.file)
ReadActivityWhealth ==
    /\ pc = "whealth"
    /\ LET r == IF exists THEN read_activity_whealth(file_lines)
                ELSE [status |-> "FileNotFoundError", frame |-> NoFrame]
       IN  IF r.status = "returned"
           THEN pc' = "returned" /\ df' = r.frame /\ raised' = raised
           ELSE pc' = "raised" /\ df' = df /\ raised' = r.status
    /\ UNCHANGED <<reader, file_state, read_lines, mapped>>
    /\ unchanged_file /\ unchanged_parse /\ unchanged_time

\* with open(fp, 'r') as f:
Open ==
    /\ pc = "call"
    /\ reader' = "read_activity_log"
    /\ IF exists
       THEN file_state' = "open" /\ pc' = "opened" /\ raised' = raised
       ELSE file_state' = file_state /\ pc' = "raised"
            /\ raised' = "FileNotFoundError"
    /\ UNCHANGED <<read_lines, mapped, df>>
    /\ unchanged_file /\ unchanged_parse /\ unchanged_time

\* f.readlines()[header:]
ReadLines ==
    /\ pc = "opened"
    /\ read_lines' = SubSeq(file_lines, header + 1, Len(file_lines))
    /\ pc' = "mapping"
    /\ UNCHANGED <<reader, file_state, mapped, df, raised>>
    /\ unchanged_file /\ unchanged_parse /\ unchanged_time

\* DataFrame(...) draws the next element of map(parse_log_line, ...): an
\* exception of parse_log_line leaves the with block
MapNext ==
    /\ pc = "mapping"
    /\ Len(mapped) < Len(read_lines)
    /\ LET r == parse_log_line(read_lines[Len(mapped) + 1], enum_format, regex_order)
       IN  IF r.status \in {"LogLine", "None"}
           THEN /\ mapped' = Append(mapped, r)
                /\ UNCHANGED <<pc, file_state, raised>>
           ELSE /\ raised' = r.status
                /\ pc' = "raised"
                /\ file_state' = WithExit(TRUE)
                /\ mapped' = mapped
    /\ UNCHANGED <<reader, read_lines, df>>
    /\ unchanged_file /\ unchanged_parse /\ unchanged_time

\* df = DataFrame(...) once the map is exhausted
BuildFrame ==
    /\ pc = "mapping"
    /\ Len(mapped) = Len(read_lines)
    /\ df' = DataFrameRows(mapped)
    /\ pc' = "framed"
    /\ UNCHANGED <<reader, file_state, read_lines, mapped, raised>>
    /\ unchanged_file /\ unchanged_parse /\ unchanged_time

\* df['TimeStamp'] = to_datetime(df.TimeStamp); return df.  df.TimeStamp
\* is an AttributeError when the frame has no such column.
ConvertAndReturn ==
    /\ pc = "framed"
    /\ IF HasLogLineColumns(df)
       THEN /\ pc' = "returned" /\ raised' = raised
            /\ file_state' = WithExit(FALSE)
       ELSE /\ pc' = "raised" /\ raised' = "AttributeError"
            /\ file_state' = WithExit(TRUE)
    /\ UNCHANGED <<reader, read_lines, mapped, df>>
    /\ unchanged_file /\ unchanged_parse /\ unchanged_time

ReadNext ==
    \/ Main \/ ReadActivityWhealth \/ Open \/ ReadLines
    \/ MapNext \/ BuildFrame \/ ConvertAndReturn

SpecRead == ReadInit /\ [][ReadNext]_vars

----------------------------------------------------------------------------
(* time_function *)

MaxDataSize == 203

\* round(num / den) for num >= 0 and den > 0: the nearest integer, the
\* even one of the two when num / den lies halfway
RoundHalfEven(num, den) ==
    LET q == num \div den
        r == num % den
    IN  IF 2 * r < den THEN q
        ELSE IF 2 * r > den THEN q + 1
        ELSE IF q % 2 = 0 THEN q ELSE q + 1

\* The minutes m with m / 60 decimally halfway between two tenths whose
\* double m / 60 lies above that halfway point.  15 / 60 and 45 / 60 are
\* exact doubles; for 9, 21, 51 and 57 the double lies below.
DoubleAboveHalfway == {3, 27, 33, 39}

\* round(minute / 60, 1) in tenths: round() with ndigits rounds the value
\* of the double minute / 60, half to even when it is halfway exactly
RoundTenth(minute) ==
    IF minute % 6 # 3 THEN RoundHalfEven(minute, 6)
    ELSE IF minute \in DoubleAboveHalfway THEN minute \div 6 + 1
    ELSE IF minute \in {15, 45} THEN RoundHalfEven(minute, 6)
    ELSE minute \div 6

\* time_function with < for <= in its comparisons of data_size
time_function_lt(size, t) ==
    LET step ==
          IF size < 50 THEN 20 * RoundHalfEven(t.minute, 60)
          ELSE IF size < 100 THEN 10 * RoundHalfEven(t.minute * 2, 60)
          ELSE IF size < 200 THEN 5 * RoundHalfEven(t.minute * 4, 60)
          ELSE 2 * RoundTenth(t.minute)
    IN  20 * t.hour + step

\* fn(x) of time_function(df) with df.shape[0] = size, in twentieths of an
\* hour (every step is a multiple of 1/20)
time_function(size, t) ==
    LET step ==
          IF size <= 50 THEN 20 * RoundHalfEven(t.minute, 60)
          ELSE IF size <= 100 THEN 10 * RoundHalfEven(t.minute * 2, 60)
          ELSE IF size <= 200 THEN 5 * RoundHalfEven(t.minute * 4, 60)
          ELSE 2 * RoundTenth(t.minute)
    IN  20 * t.hour + step

TimeInit ==
    /\ data_size \in 0..MaxDataSize
    /\ x \in [hour : 0..23, minute : 0..59]
    /\ fn_value = 0
    /\ pc = "fn"
    /\ enum_format = "member_value" /\ regex_order = <<"A", "B">>
    /\ IdleParse /\ IdleRead

\* fn(x)
ApplyFn ==
    /\ pc = "fn"
    /\ fn_value' = time_function(data_size, x)
    /\ pc' = "fn_done"
    /\ UNCHANGED <<data_size, x, enum_format, regex_order>>
    /\ unchanged_parse /\ unchanged_read

TimeNext == ApplyFn

SpecTime == TimeInit /\ [][TimeNext]_vars

----------------------------------------------------------------------------
(* What the written fields of a line say *)

WrittenInt(v) == IF v.some THEN IntOf(v.text) ELSE 0

\* the line starts with a timestamp in layout A or B whose time of day is
\* written HH:MM[:SS] with a valid hour, minute and second
WrittenTimeValid(p) ==
    /\ p.grammar \in {"A", "B"}
    /\ Len(p.time.hh) = 2 /\ IntOf(p.time.hh) <= 23
    /\ Len(p.time.mm) = 2 /\ IntOf(p.time.mm) <= 59
    /\ WrittenInt(p.time.ss) <= 59

\* the written date is a date of the calendar in the year y
WrittenDateValid(p, y) ==
    /\ y \in 1..9999
    /\ IntOf(p.M) \in 1..12
    /\ IntOf(p.D) >= 1 /\ IntOf(p.D) <= DaysInMonth(y, IntOf(p.M))

IsLogLine(r) == r.status = "LogLine"

\* the extension of the file name of a path: what follows the last '.' of
\* its last component, None when that holds no '.'
Extension(file) ==
    LET name == SubSeq(file, LastIndexOf(file, "/") + 1, Len(file))
        dot == LastIndexOf(name, ".")
    IN  IF dot = 0 THEN NoneVal ELSE Some(SubSeq(name, dot + 1, Len(name)))

\* the step, in twentieths of an hour, for a record set of n records:
\* 1 up to 50 records, 1/2 up to 100, 1/4 up to 200, 1/10 above
StepOfSize(n) ==
    IF n <= 50 THEN 20 ELSE IF n <= 100 THEN 10 ELSE IF n <= 200 THEN 5 ELSE 2

Abs(n) == IF n < 0 THEN -n ELSE n

----------------------------------------------------------------------------
(* The claims *)

\* C1: a line that starts with a timestamp in layout A or B with a
\* four-digit year and a valid calendar date, followed by ' <N> time(s)
\* <category>' with N any positive integer, is parsed by parse_log_line to
\* a record with exactly the written year, month, day, hour and minute,
\* the written second or 0, RepeatCount N and the category verbatim.
C1_WrittenRecordParsed ==
    (/\ pc = "line_parsed"
     /\ WrittenTimeValid(parts)
     /\ Len(parts.Y) = 4
     /\ WrittenDateValid(parts, IntOf(parts.Y))
     /\ parts.suffix.present
     /\ IntOf(parts.suffix.N) >= 1)
    => /\ log_result.status = "LogLine"
       /\ log_result.value.TimeStamp =
            [year |-> IntOf(parts.Y), month |-> IntOf(parts.M),
             day |-> IntOf(parts.D), hour |-> IntOf(parts.time.hh),
             minute |-> IntOf(parts.time.mm),
             second |-> WrittenInt(parts.time.ss)]
       /\ log_result.value.Repeat = IntOf(parts.suffix.N)
       /\ log_result.value.Kind = parts.suffix.kind

\* C2: parse_log_line returns no record and raises no error for every
\* line whose leading timestamp is absent or whose '<repeat> time(s)
\* <category>' suffix is absent.
C2_NoRecordNoError ==
    (/\ pc = "line_parsed"
     /\ \/ parts.grammar \notin {"A", "B"}
        \/ ~parts.suffix.present)
    => log_result.status = "None"

\* C3: read_activity_log returns exactly one record for each line after
\* the first header lines that parses successfully, in input order, and
\* nothing for a line that fails to parse; a failing line never aborts
\* the read.
C3_OneRowPerParsedLine ==
    (/\ pc \in {"returned", "raised"}
     /\ reader = "read_activity_log"
     /\ exists)
    => /\ pc = "returned"
       /\ LET after == SubSeq(file_lines, header + 1, Len(file_lines))
              results == [k \in 1..Len(after) |->
                            parse_log_line(after[k], enum_format, regex_order)]
          IN  df = SelectSeq(results, IsLogLine)

\* C4: for a timestamp written with a two-digit year, in layout A or B,
\* the instant TimeStamp._datetime makes of what parse_time_str returned
\* has a four-digit year, in the 1900s or the 2000s, and the same year in
\* both layouts for the same date.
C4_TwoDigitYearPivoted ==
    (/\ pc = "datetime_done"
     /\ WrittenTimeValid(parts)
     /\ Len(parts.Y) = 2
     /\ WrittenDateValid(parts, 2000 + IntOf(parts.Y)))
    => /\ dt_result.status = "datetime"
       /\ dt_result.value.year \in {1900 + IntOf(parts.Y), 2000 + IntOf(parts.Y)}
       /\ LET other == [parts EXCEPT !.grammar = IF @ = "A" THEN "B" ELSE "A"]
              ts == parse_time_str(Render(other), enum_format, regex_order)
          IN  Datetime(ts.fields) = dt_result

\* C5: the entry point reads a path whose file-name extension is 'csv'
\* with read_activity_whealth and every other path, one with no extension
\* included, with read_activity_log and header 1.
C5_ReaderByExtension ==
    (entry = "__main__" /\ pc # "main")
    => /\ reader = "read_activity_whealth"
            <=> Extension(path) = Some(<<"c", "s", "v">>)
       /\ reader = "read_activity_log" => header = 1

\* C6: every TimeStamp parse_time_str returns has Month in 1..12 and Day
\* in 1..31.
C6_MonthDayInRange ==
    (pc = "time_parsed" /\ ts_result.status = "TimeStamp")
    => /\ FieldInt(ts_result.fields.Month) \in 1..12
       /\ FieldInt(ts_result.fields.Day) \in 1..31

\* C7: every record parse_log_line returns has a RepeatCount of at least 1.
C7_RepeatPositive ==
    (pc = "line_parsed" /\ log_result.status = "LogLine")
    => log_result.value.Repeat >= 1

\* C8: for a record set of n records fn maps a timestamp to its hour plus
\* its minutes rounded to a multiple of the step of n (1 for n <= 50, 1/2
\* for 50 < n <= 100, 1/4 for 100 < n <= 200, 1/10 above): the value is
\* the hour plus a multiple of the step, at most half a step from the
\* time of day, and no further from it than half the step of n - 1.
C8_StepBySize ==
    pc = "fn_done"
    => LET off == fn_value - 20 * x.hour
       IN  /\ off % StepOfSize(data_size) = 0
           /\ 2 * Abs(3 * off - x.minute) <= 3 * StepOfSize(data_size)
           /\ data_size > 0 =>
                2 * Abs(3 * off - x.minute) <= 3 * StepOfSize(data_size - 1)

\* with exactly 50 records a quarter to the hour is rounded to the next
\* whole hour
C8_Witness ==
    /\ pc = "fn_done" /\ data_size = 50 /\ x.minute = 45
    /\ fn_value = 20 * (x.hour + 1)

\* C9: read_activity_log leaves no exit with the file open: the file is
\* open only inside the with block, and after a return or an exception
\* of a call that opened it, it is closed.
C9_FileClosedOnExit ==
    /\ file_state = "open" => pc \in {"opened", "mapping", "framed"}
    /\ (pc \in {"returned", "raised"} /\ reader = "read_activity_log")
         => \/ file_state = "closed"
            \/ file_state = "unopened" /\ raised = "FileNotFoundError"

\* a line that raised in parse_log_line after another was parsed, with
\* the file closed
C9_Witness ==
    /\ pc = "raised" /\ raised = "TypeError" /\ Len(mapped) >= 1
    /\ file_state = "closed"

\* C10: the result of parse_time_str does not depend on the order in
\* which the two patterns are tried: no line is matched by both, and the
\* other order returns the same.
C10_OrderIrrelevant ==
    pc = "time_parsed"
    => /\ ~(/\ ReMatch(RegexA(enum_format), line).matched
            /\ ReMatch(RegexB(enum_format), line).matched)
       /\ ts_result =
            parse_time_str(line, enum_format, <<regex_order[2], regex_order[1]>>)

\* a line in layout A parsed with the pattern of layout B tried first
C10_Witness ==
    /\ pc = "time_parsed" /\ ts_result.status = "TimeStamp"
    /\ parts.grammar = "A" /\ regex_order = <<"B", "A">>

====
